---- MODULE Spec2Model ----
(***************************************************************************)
(* Conway's Game of Life (main.py): the grid geometry (get_neighbors), the *)
(* stepping rule (adjust_grid), the random seeding (gen) and the Streamlit *)
(* script pass of main() over st.session_state.                            *)
(*                                                                         *)
(* A coordinate is a pair <<x, y>>; get_neighbors bounds x by GRID_WIDTH   *)
(* and y by GRID_HEIGHT.  The grid dimensions are fixed for a run and are  *)
(* chosen once, in the initial state, from small ranges.                   *)
(***************************************************************************)
EXTENDS Integers, Sequences, FiniteSets

\* ---- bounds of the model ------------------------------------------------
\* grid dimensions of the session (script passes)
MaxWidth == 2
MaxHeight == 2
\* random.randrange(200, 400), scaled to the small grids
RandomLo == 3
RandomHi == 4
\* cap of the generation counter
MaxGeneration == 2
\* grid dimensions when gen, get_neighbors and adjust_grid are called on their own
CallWidth == 3
CallHeight == 3
\* largest count handed to gen when it is called on its own
MaxNum == 3
\* grid dimensions of the statement-by-statement execution of adjust_grid
ExecWidth == 2
ExecHeight == 2

VARIABLES
    GRID_WIDTH, GRID_HEIGHT,      \* configuration, fixed for a run
    positions, playing, generation, \* st.session_state
    event,                        \* what triggered the last script pass
    stepped,                      \* the last pass ran the game-loop branch
    steps,                        \* adjust_grid calls since the last reset
    snapshot,                     \* the set the last pass handed to adjust_grid, if it did
    call, pos, num,               \* a function called on its own, and its argument
    neighbors,                    \* list returned by get_neighbors
    generated,                    \* set returned by gen
    pc, todo,                     \* position inside adjust_grid, rest of its for loop
    all_neighbors, new_positions  \* locals / return value of adjust_grid

vars == <<GRID_WIDTH, GRID_HEIGHT, positions, playing, generation, event,
          stepped, steps, snapshot, call, pos, num, neighbors, generated,
          pc, todo, all_neighbors, new_positions>>

Range(s) == {s[i] : i \in 1..Len(s)}

\* ---- get_neighbors --------------------------------------------------------
\* the body of the inner loop for one (dx, dy): the list it appends
InnerStep(x, y, dx, dy) ==
    IF y + dy < 0 \/ y + dy >= GRID_HEIGHT THEN <<>>
    ELSE IF dx = 0 /\ dy = 0 THEN <<>>
    ELSE << <<x + dx, y + dy>> >>

\* the body of the outer loop for one dx
OuterStep(x, y, dx) ==
    IF x + dx < 0 \/ x + dx >= GRID_WIDTH THEN <<>>
    ELSE InnerStep(x, y, dx, -1) \o InnerStep(x, y, dx, 0) \o InnerStep(x, y, dx, 1)

get_neighbors_asym(p) ==
    LET x == p[1]
        y == p[2]
        Outer(dx) ==
            IF x + dx < 0 \/ x + dx >= GRID_WIDTH - 1 THEN <<>>
            ELSE InnerStep(x, y, dx, -1) \o InnerStep(x, y, dx, 0) \o InnerStep(x, y, dx, 1)
    IN  Outer(-1) \o Outer(0) \o Outer(1)

get_neighbors_self(p) ==
    LET x == p[1]
        y == p[2]
        Inner(dx, dy) ==
            IF y + dy < 0 \/ y + dy >= GRID_HEIGHT THEN <<>>
            ELSE << <<x + dx, y + dy>> >>
        Outer(dx) ==
            IF x + dx < 0 \/ x + dx >= GRID_WIDTH THEN <<>>
            ELSE Inner(dx, -1) \o Inner(dx, 0) \o Inner(dx, 1)
    IN  Outer(-1) \o Outer(0) \o Outer(1)

get_neighbors(p) ==
    LET x == p[1]
        y == p[2]
    IN  OuterStep(x, y, -1) \o OuterStep(x, y, 0) \o OuterStep(x, y, 1)

\* ---- adjust_grid ----------------------------------------------------------
\* [n for n in neighbors if n in positions]
alive_neighbors(p, ps) == SelectSeq(get_neighbors(p), LAMBDA n : n \in ps)

\* all_neighbors once the first loop has run
AllNeighbors(ps) == UNION {Range(get_neighbors(p)) : p \in ps}

adjust_grid_nobirth(ps) ==
    {p \in ps : Len(alive_neighbors(p, ps)) \in {2, 3}}

adjust_grid(ps) ==
    {p \in ps : Len(alive_neighbors(p, ps)) \in {2, 3}}
    \cup {p \in AllNeighbors(ps) : Len(alive_neighbors(p, ps)) = 3}

\* ---- gen ------------------------------------------------------------------
\* every set the list comprehension of gen can produce: n draws, each
\* (randrange(0, GRID_HEIGHT), randrange(0, GRID_WIDTH)), collapsed by set()
RECURSIVE gen(_)
gen(n) ==
    IF n <= 0 THEN {{}}
    ELSE {S \cup {c} : S \in gen(n - 1),
                       c \in (0..(GRID_HEIGHT - 1)) \X (0..(GRID_WIDTH - 1))}

\* ---- main(): one script pass ---------------------------------------------
\* The session state, with the bookkeeping of the pass, as one record.
Session ==
    [playing |-> playing, positions |-> positions, generation |-> generation,
     steps |-> steps, stepped |-> FALSE, snapshot |-> {}]

StartPauseButton(s) == [s EXCEPT !.playing = ~s.playing]

StopButton(s) ==
    [s EXCEPT !.playing = FALSE, !.positions = {}, !.generation = 0, !.steps = 0]

RandomButton_keepgen(s, cells) == [s EXCEPT !.positions = cells, !.steps = 0]

RandomButton(s, cells) ==
    [s EXCEPT !.positions = cells, !.generation = 0, !.steps = 0]

ClearButton_keepgen(s) == [s EXCEPT !.positions = {}, !.steps = 0]

ClearButton(s) == [s EXCEPT !.positions = {}, !.generation = 0, !.steps = 0]

GameLoop_ungated(s) ==
    [s EXCEPT !.positions = adjust_grid(s.positions),
              !.generation = s.generation + 1,
              !.steps = s.steps + 1,
              !.stepped = TRUE,
              !.snapshot = s.positions]

GameLoop(s) ==
    IF s.playing
    THEN [s EXCEPT !.positions = adjust_grid(s.positions),
                   !.generation = s.generation + 1,
                   !.steps = s.steps + 1,
                   !.stepped = TRUE,
                   !.snapshot = s.positions]
    ELSE s

\* the pass ends in state s, having been triggered by e
Finish(e, s) ==
    /\ s.generation <= MaxGeneration
    /\ event' = e
    /\ playing' = s.playing
    /\ positions' = s.positions
    /\ generation' = s.generation
    /\ steps' = s.steps
    /\ stepped' = s.stepped
    /\ snapshot' = s.snapshot
    /\ UNCHANGED <<GRID_WIDTH, GRID_HEIGHT, call, pos, num, neighbors, generated,
                   pc, todo, all_neighbors, new_positions>>

\* first load of the page, or the pass that st.rerun() starts: no button
Rerun == Finish("rerun", GameLoop(Session))

StartPause == Finish("start_pause", GameLoop(StartPauseButton(Session)))

Stop == Finish("stop", GameLoop(StopButton(Session)))

Random ==
    \E n \in RandomLo..(RandomHi - 1) :
        \E cells \in gen(n) :
            Finish("random", GameLoop(RandomButton(Session, cells)))

Clear == Finish("clear", GameLoop(ClearButton(Session)))

\* a click on the rendered grid: the grid is static SVG inside markdown, so
\* no widget fires, no pass runs and the session state stays as it is
Click ==
    /\ event' = "click"
    /\ UNCHANGED <<GRID_WIDTH, GRID_HEIGHT, positions, playing, generation,
                   stepped, steps, snapshot, call, pos, num, neighbors,
                   generated, pc, todo, all_neighbors, new_positions>>

\* the values of the variables a specification does not use
Idle ==
    /\ call = "none" /\ pos = <<0, 0>> /\ num = 0
    /\ neighbors = <<>> /\ generated = {}
    /\ pc = "idle" /\ todo = {} /\ all_neighbors = {} /\ new_positions = {}

Init ==
    /\ GRID_WIDTH \in 1..MaxWidth
    /\ GRID_HEIGHT \in 1..MaxHeight
    /\ positions = {}
    /\ playing = FALSE
    /\ generation = 0
    /\ event = "none"
    /\ stepped = FALSE
    /\ steps = 0
    /\ snapshot = {}
    /\ Idle

Next == Rerun \/ StartPause \/ Stop \/ Random \/ Clear \/ Click

Spec == Init /\ [][Next]_vars


\* ---- the session: properties ----------------------------------------------
InBounds(c) == 0 <= c[1] /\ c[1] < GRID_WIDTH /\ 0 <= c[2] /\ c[2] < GRID_HEIGHT

Grid == (0..(GRID_WIDTH - 1)) \X (0..(GRID_HEIGHT - 1))

Resets == {"stop", "random", "clear"}

\* C2: in every reachable state every live coordinate (x, y) has
\* 0 <= x < GRID_WIDTH and 0 <= y < GRID_HEIGHT.
C2_LiveSetInBounds == \A c \in positions : InBounds(c)

\* C4: the generation counter is 0 at start-up and always equals the number
\* of adjust_grid calls since the last Stop, Random or Clear; a pass sets it
\* to (0 if it handled Stop, Random or Clear, else its old value) plus 1 if
\* the pass stepped, so Start/Pause by itself leaves it alone.
C4_GenerationCountsSteps ==
    /\ [](generation = steps /\ (event = "none" => generation = 0))
    /\ [][IF event' = "click"
          THEN generation' = generation
          ELSE generation' = (IF event' \in Resets THEN 0 ELSE generation)
                             + (IF stepped' THEN 1 ELSE 0)]_vars

C4_Witness ==
    /\ event = "random" /\ stepped /\ generation = 1 /\ positions # {}

\* C5 as stated: after a pass that handled Stop or Clear the live set is
\* empty and the generation counter is 0.
C5_StopClearZero ==
    event \in {"stop", "clear"} => positions = {} /\ generation = 0

\* C5, amended: after a pass that handled Stop or Clear the live set is
\* empty; the counter is 0 if the pass did not step (always after Stop, and
\* after Clear while paused) and 1 after Clear while playing, because the
\* game loop of the same pass steps the cleared set.
C5_StopClearEmpty ==
    /\ event = "stop" => ~playing /\ positions = {} /\ generation = 0
    /\ event = "clear" =>
          positions = {} /\ generation = (IF playing THEN 1 ELSE 0)

C5_Witness == event = "clear" /\ playing /\ generation = 1 /\ snapshot = {}

\* C8: a click on a cell flips that cell's membership in the live set.
C8_ClickToggles ==
    [][event' = "click" =>
          \E c \in Grid :
              positions' = (IF c \in positions THEN positions \ {c}
                                               ELSE positions \cup {c})]_vars

\* C9: a pass steps exactly once if and only if the playing flag is true
\* after its button handling, the step being adjust_grid of the live set the
\* buttons left; a pass with the flag false and none of Stop, Random, Clear
\* changes neither the live set nor the counter; no pass steps while the
\* flag was false unless it handled Start, and Stop leaves the flag false.
C9_FlagGatesStep ==
    /\ [](event = "stop" => ~playing /\ ~stepped)
    /\ [][event' # "click" =>
            /\ stepped' <=> playing'
            /\ stepped' =>
                 /\ positions' = adjust_grid(snapshot')
                 /\ generation' = (IF event' \in Resets THEN 0 ELSE generation) + 1
                 /\ event' \in {"rerun", "start_pause"} => snapshot' = positions
                 /\ event' = "clear" => snapshot' = {}
                 /\ event' = "random" =>
                        /\ snapshot' # {}
                        /\ Cardinality(snapshot') < RandomHi
            /\ (~playing' /\ event' \notin Resets) =>
                 positions' = positions /\ generation' = generation
            /\ (~playing /\ event' # "start_pause") => ~stepped'
         ]_vars

C9_Witness ==
    /\ event = "start_pause" /\ stepped /\ playing
    /\ positions # {} /\ positions # snapshot


\* ---- get_neighbors and adjust_grid called on their own ---------------------
\* the rest of the state while functions are called on their own
SessionAtRest ==
    /\ playing = FALSE /\ generation = 0 /\ event = "none"
    /\ stepped = FALSE /\ steps = 0 /\ snapshot = {}

InitPure ==
    /\ GRID_WIDTH \in 1..CallWidth
    /\ GRID_HEIGHT \in 1..CallHeight
    /\ positions \in SUBSET Grid
    /\ SessionAtRest
    /\ Idle

CallAdjustGrid ==
    /\ call' = "adjust_grid"
    /\ all_neighbors' = AllNeighbors(positions)
    /\ new_positions' = adjust_grid(positions)
    /\ UNCHANGED <<GRID_WIDTH, GRID_HEIGHT, positions, playing, generation,
                   event, stepped, steps, snapshot, pos, num, neighbors,
                   generated, pc, todo>>

NextPure == CallAdjustGrid

SpecPure == InitPure /\ [][NextPure]_vars

\* C1: for a live set within bounds, adjust_grid returns the B3/S23 scan of
\* the whole grid: a cell of the grid is in the result iff it is live with 2
\* or 3 live cells among its adjacent cells, or dead with exactly 3.
C1_MatchesFullScan ==
    call = "adjust_grid" =>
        LET Adjacent(c, d) ==
                /\ d # c
                /\ d[1] - c[1] \in {-1, 0, 1}
                /\ d[2] - c[2] \in {-1, 0, 1}
            Count(c) == Cardinality({d \in positions : Adjacent(c, d)})
        IN  new_positions =
                {c \in Grid : \/ c \in positions /\ Count(c) \in {2, 3}
                              \/ c \notin positions /\ Count(c) = 3}

C1_Witness ==
    /\ call = "adjust_grid"
    /\ new_positions \ positions # {}
    /\ positions \ new_positions # {}
    /\ positions \cap new_positions # {}

\* C10: get_neighbors is symmetric on the cells of the grid, and every dead
\* cell of the grid with a live neighbour is in all_neighbors, the set
\* adjust_grid scans for births.
C10_SymmetricNeighbors ==
    call = "adjust_grid" =>
        /\ \A a \in Grid : \A b \in Grid :
              b \in Range(get_neighbors(a)) <=> a \in Range(get_neighbors(b))
        /\ \A d \in Grid \ positions :
              (\E n \in Range(get_neighbors(d)) : n \in positions)
                  => d \in all_neighbors

C10_Witness ==
    /\ call = "adjust_grid"
    /\ \E d \in Grid \ positions :
          /\ \E n \in Range(get_neighbors(d)) : n \in positions
          /\ d \in all_neighbors
          /\ d \notin new_positions
    /\ new_positions \ positions # {}

\* ---- get_neighbors called on its own ---------------------------------------
InitNeighbors ==
    /\ GRID_WIDTH \in 1..CallWidth
    /\ GRID_HEIGHT \in 1..CallHeight
    /\ positions = {}
    /\ SessionAtRest
    /\ Idle

\* the argument ranges over the grid and the ring of cells around it
CallGetNeighbors ==
    \E p \in (-1..GRID_WIDTH) \X (-1..GRID_HEIGHT) :
        /\ call' = "get_neighbors"
        /\ pos' = p
        /\ neighbors' = get_neighbors(p)
        /\ UNCHANGED <<GRID_WIDTH, GRID_HEIGHT, positions, playing, generation,
                       event, stepped, steps, snapshot, num, generated, pc, todo,
                       all_neighbors, new_positions>>

NextNeighbors == CallGetNeighbors

SpecNeighbors == InitNeighbors /\ [][NextNeighbors]_vars

\* C6 as stated: on an N x N grid get_neighbors((0,0)) has exactly 3
\* members, all within bounds, an edge cell 5 and an interior cell 8; the
\* list never holds the cell itself nor a duplicate.
C6_NeighborCounts ==
    call = "get_neighbors" =>
        /\ pos \notin Range(neighbors)
        /\ Cardinality(Range(neighbors)) = Len(neighbors)
        /\ (GRID_WIDTH = GRID_HEIGHT /\ pos \in Grid) =>
              LET N == GRID_WIDTH
                  onX == pos[1] \in {0, N - 1}
                  onY == pos[2] \in {0, N - 1}
              IN  /\ pos = <<0, 0>> =>
                        Len(neighbors) = 3 /\ \A n \in Range(neighbors) : InBounds(n)
                  /\ (onX /\ ~onY) \/ (onY /\ ~onX) => Len(neighbors) = 5
                  /\ (~onX /\ ~onY) => Len(neighbors) = 8

\* C6, amended: the same, for N >= 2 (on the 1 x 1 grid the only cell has no
\* neighbour); the list holds neither the cell itself nor a duplicate, on
\* every grid.
C6_NeighborCountsFromTwo ==
    call = "get_neighbors" =>
        /\ pos \notin Range(neighbors)
        /\ Cardinality(Range(neighbors)) = Len(neighbors)
        /\ (GRID_WIDTH = GRID_HEIGHT /\ GRID_WIDTH >= 2 /\ pos \in Grid) =>
              LET N == GRID_WIDTH
                  onX == pos[1] \in {0, N - 1}
                  onY == pos[2] \in {0, N - 1}
              IN  /\ pos = <<0, 0>> =>
                        Len(neighbors) = 3 /\ \A n \in Range(neighbors) : InBounds(n)
                  /\ (onX /\ ~onY) \/ (onY /\ ~onX) => Len(neighbors) = 5
                  /\ (~onX /\ ~onY) => Len(neighbors) = 8

C6_Witness ==
    /\ call = "get_neighbors" /\ GRID_WIDTH = 3 /\ GRID_HEIGHT = 3
    /\ pos = <<0, 1>> /\ Len(neighbors) = 5

\* ---- gen called on its own -------------------------------------------------
InitGen ==
    /\ GRID_WIDTH \in 1..CallWidth
    /\ GRID_HEIGHT \in 1..CallHeight
    /\ positions = {}
    /\ SessionAtRest
    /\ Idle

CallGen ==
    \E n \in 0..MaxNum :
        \E cells \in gen(n) :
            /\ call' = "gen"
            /\ num' = n
            /\ generated' = cells
            /\ UNCHANGED <<GRID_WIDTH, GRID_HEIGHT, positions, playing, generation,
                           event, stepped, steps, snapshot, pos, neighbors, pc,
                           todo, all_neighbors, new_positions>>

NextGen == CallGen

SpecGen == InitGen /\ [][NextGen]_vars

\* C3: gen(count) returns at most count members, each (x, y) with
\* 0 <= x < GRID_WIDTH and 0 <= y < GRID_HEIGHT.
C3_GenBounded ==
    call = "gen" =>
        /\ Cardinality(generated) <= num
        /\ \A c \in generated : InBounds(c)


\* ---- adjust_grid, statement by statement, inside the game loop -------------
\* The argument of adjust_grid is the very set object of the session state,
\* so the record carries positions next to the two locals.
Frame ==
    [positions |-> positions, all_neighbors |-> all_neighbors,
     new_positions |-> new_positions]

\* one iteration of the first for loop, the loop variable being p
Loop1Body_inplace(l, p) ==
    LET nb == get_neighbors(p)
        alive == SelectSeq(nb, LAMBDA n : n \in l.positions)
    IN  [l EXCEPT !.all_neighbors = @ \cup Range(nb),
                  !.positions = IF Len(alive) \in {2, 3} THEN @ ELSE @ \ {p},
                  !.new_positions = IF Len(alive) \in {2, 3} THEN @ \cup {p} ELSE @]

Loop1Body(l, p) ==
    LET nb == get_neighbors(p)
        alive == SelectSeq(nb, LAMBDA n : n \in l.positions)
    IN  [l EXCEPT !.all_neighbors = @ \cup Range(nb),
                  !.new_positions = IF Len(alive) \in {2, 3} THEN @ \cup {p} ELSE @]

\* one iteration of the second for loop
Loop2Body(l, p) ==
    LET nb == get_neighbors(p)
        alive == SelectSeq(nb, LAMBDA n : n \in l.positions)
    IN  [l EXCEPT !.new_positions = IF Len(alive) = 3 THEN @ \cup {p} ELSE @]

InitExec ==
    /\ GRID_WIDTH \in 1..ExecWidth
    /\ GRID_HEIGHT \in 1..ExecHeight
    /\ positions \in SUBSET Grid
    /\ playing = TRUE
    /\ generation = 0
    /\ event = "rerun"
    /\ stepped = FALSE
    /\ steps = 0
    /\ snapshot = {}
    /\ Idle

\* the game loop of the pass finds the flag set and calls adjust_grid(positions)
ExecCall ==
    /\ pc = "idle" /\ playing /\ ~stepped
    /\ pc' = "loop1"
    /\ todo' = positions
    /\ all_neighbors' = {}
    /\ new_positions' = {}
    /\ snapshot' = positions
    /\ UNCHANGED <<GRID_WIDTH, GRID_HEIGHT, positions, playing, generation,
                   event, stepped, steps, call, pos, num, neighbors, generated>>

ExecLoop1 ==
    /\ pc = "loop1"
    /\ \E p \in todo :
          LET l == Loop1Body(Frame, p)
          IN  /\ positions' = l.positions
              /\ all_neighbors' = l.all_neighbors
              /\ new_positions' = l.new_positions
              /\ todo' = todo \ {p}
    /\ UNCHANGED <<GRID_WIDTH, GRID_HEIGHT, playing, generation, event, stepped,
                   steps, snapshot, call, pos, num, neighbors, generated, pc>>

ExecLoop1End ==
    /\ pc = "loop1" /\ todo = {}
    /\ pc' = "loop2"
    /\ todo' = all_neighbors
    /\ UNCHANGED <<GRID_WIDTH, GRID_HEIGHT, positions, playing, generation,
                   event, stepped, steps, snapshot, call, pos, num, neighbors,
                   generated, all_neighbors, new_positions>>

ExecLoop2 ==
    /\ pc = "loop2"
    /\ \E p \in todo :
          LET l == Loop2Body(Frame, p)
          IN  /\ positions' = l.positions
              /\ all_neighbors' = l.all_neighbors
              /\ new_positions' = l.new_positions
              /\ todo' = todo \ {p}
    /\ UNCHANGED <<GRID_WIDTH, GRID_HEIGHT, playing, generation, event, stepped,
                   steps, snapshot, call, pos, num, neighbors, generated, pc>>

\* return new_positions; the game loop stores it and counts the generation
ExecReturn ==
    /\ pc = "loop2" /\ todo = {}
    /\ pc' = "idle"
    /\ positions' = new_positions
    /\ generation' = generation + 1
    /\ steps' = steps + 1
    /\ stepped' = TRUE
    /\ UNCHANGED <<GRID_WIDTH, GRID_HEIGHT, playing, event, snapshot, call, pos,
                   num, neighbors, generated, todo, all_neighbors, new_positions>>

NextExec == ExecCall \/ ExecLoop1 \/ ExecLoop1End \/ ExecLoop2 \/ ExecReturn

SpecExec == InitExec /\ [][NextExec]_vars

\* C7: while adjust_grid runs, the live set it reads stays the set it was
\* called with; the session's live set changes only when the call returns,
\* and then to the finished result, the step of that pre-call set.
C7_StepReadsSnapshot ==
    /\ [](pc # "idle" => positions = snapshot)
    /\ [][positions' # positions => pc = "loop2" /\ todo = {} /\ pc' = "idle"]_vars
    /\ [][(pc = "loop2" /\ pc' = "idle") =>
              positions' = new_positions /\ positions' = adjust_grid(snapshot)]_vars

C7_Witness ==
    /\ pc = "loop1" /\ todo # {}
    /\ \E p \in positions \ todo : p \notin new_positions

====
